---- MODULE Spec2Model ----
(***************************************************************************)
(* The hOCR parser (HocrParser) and the offset text navigator              *)
(* (OcrTextInfo) of addon/globalPlugins/ocr.py, and the earlier            *)
(* HocrParser._startElement of addon/globalPlugins/ocr/__init__.py.        *)
(*                                                                         *)
(* A document is the sequence of expat callbacks it produces: start of an  *)
(* element (tag, attributes), character data, end of an element.  A string *)
(* is a sequence of one-character strings; a bounding-box title is a       *)
(* sequence of symbols (words, numerals, " " and ";").  A Python float     *)
(* x + n / IMAGE_RESIZE_FACTOR is kept exactly, as the integer             *)
(* x * IMAGE_RESIZE_FACTOR + n (units of 1 / IMAGE_RESIZE_FACTOR).         *)
(***************************************************************************)
EXTENDS Integers, Sequences, FiniteSets, TLC

\* Bounds of the model.
MaxEvents == 4
MaxInfos == 2

IMAGE_RESIZE_FACTOR == 2

-----------------------------------------------------------------------------
(* Inputs *)

Whitespace == {" ", "\n"}

\* Character data chunks handed to the CharacterDataHandler.
DataSet ==
    { <<"a">>, <<"\n">>, <<" ", " ">>, <<"a", " ">>, <<" ", "b">> }

\* Values of the title attribute of a word span.
TitleA == <<"bbox", " ", "10", " ", "20", " ", "30", " ", "40">>
TitleB == <<"bbox", " ", "51", " ", "21", " ", "70", " ", "40">>
TitleASuffix == TitleA \o <<";", " ", "x_wconf", " ", "95">>
TitleShort == <<"bbox", " ", "10">>
TitleAWide == <<"bbox", " ", "10", " ", "20", " ", "70", " ", "95">>
TitleSet == {TitleA, TitleB, TitleASuffix, TitleShort, TitleAWide}

\* Attribute dictionaries of the span elements fed to the parser.
WordAttrs(cls) ==
    {[class |-> cls]} \cup {[class |-> cls, title |-> t] : t \in TitleSet}
SpanAttrs ==
    {[id |-> "s"], [class |-> "ocr_line"]}
        \cup WordAttrs("ocrx_word")
        \cup {[class |-> "ocr_word"], [class |-> "ocr_word", title |-> TitleA]}
NoAttrs == [id |-> "e"]

\* Capture origins (left, top) passed to the constructor.
Origins == {<<0, 0>>, <<-3, 7>>}

-----------------------------------------------------------------------------
(* Python primitives *)

\* str.isspace(): non-empty and every character is whitespace.
isspace(data) ==
    Len(data) > 0 /\ \A i \in 1..Len(data) : data[i] \in Whitespace

\* "".join(list)
RECURSIVE join(_)
join(list) ==
    IF list = <<>> THEN <<>> ELSE Head(list) \o join(Tail(list))

\* s[start:end] for 0 <= start, 0 <= end (slices clamp to the length).
Slice(s, start, end) ==
    LET hi == IF end < Len(s) THEN end ELSE Len(s)
    IN  IF start >= hi THEN <<>> ELSE SubSeq(s, start + 1, hi)

\* Index of the first occurrence of sep in s at or after i, 0 when none.
RECURSIVE Find(_, _, _)
Find(s, sep, i) ==
    IF i > Len(s) THEN 0
    ELSE IF s[i] = sep THEN i
    ELSE Find(s, sep, i + 1)

\* str.split(sep): every separator cuts, empty pieces are kept.
RECURSIVE split(_, _)
split(s, sep) ==
    LET k == Find(s, sep, 1)
    IN  IF k = 0 THEN <<s>>
        ELSE <<SubSeq(s, 1, k - 1)>> \o split(SubSeq(s, k + 1, Len(s)), sep)

\* int(token) of the numerals the titles use.
Numerals ==
    [n \in {"10", "20", "21", "30", "40", "51", "70", "95"} |->
        CASE n = "10" -> 10 [] n = "20" -> 20 [] n = "21" -> 21
          [] n = "30" -> 30 [] n = "40" -> 40 [] n = "51" -> 51
          [] n = "70" -> 70 [] n = "95" -> 95]
IsNumeral(tok) == Len(tok) = 1 /\ tok[1] \in DOMAIN Numerals
int(tok) == Numerals[tok[1]]

\* int(x) of a float kept in units of 1 / IMAGE_RESIZE_FACTOR: truncation
\* toward zero.
Trunc(scaled) ==
    IF scaled >= 0 THEN scaled \div IMAGE_RESIZE_FACTOR
    ELSE -((-scaled) \div IMAGE_RESIZE_FACTOR)

-----------------------------------------------------------------------------
(* HocrParser *)

OcrWord(offset, left, top) == [offset |-> offset, left |-> left, top |-> top]

\* The object as __init__ leaves it before parser.Parse(xml) runs.
NewParser(leftCoordOffset, topCoordOffset) ==
    [ leftCoordOffset |-> leftCoordOffset,
      topCoordOffset |-> topCoordOffset,
      _textList |-> <<>>,
      textLen |-> 0,
      lines |-> <<>>,
      words |-> <<>>,
      _hasBlockHadContent |-> FALSE,
      text |-> <<>> ]

Returns(self) == [self |-> self, exc |-> "none"]
Raises(self, exc) == [self |-> self, exc |-> exc]

\* Faulty variant: a word span without a title is skipped silently.
AppendWordSkipsUntitled(self, attrs) ==
    IF "title" \notin DOMAIN attrs
    THEN Returns(self)
    ELSE LET titleBbox == split(attrs.title, ";")[1]
             parts == split(titleBbox, " ")
         IN  IF Len(parts) # 5 \/ ~IsNumeral(parts[2]) \/ ~IsNumeral(parts[3])
             THEN Raises(self, "ValueError")
             ELSE Returns([self EXCEPT !.words = Append(@,
                     OcrWord(self.textLen,
                         self.leftCoordOffset * IMAGE_RESIZE_FACTOR + int(parts[2]),
                         self.topCoordOffset * IMAGE_RESIZE_FACTOR + int(parts[3])))])

\* Faulty variant: left and top are not divided by IMAGE_RESIZE_FACTOR.
AppendWordUnscaled(self, attrs) ==
    IF "title" \notin DOMAIN attrs
    THEN Raises(self, "AttributeError")
    ELSE LET titleBbox == split(attrs.title, ";")[1]
             parts == split(titleBbox, " ")
         IN  IF Len(parts) # 5 \/ ~IsNumeral(parts[2]) \/ ~IsNumeral(parts[3])
             THEN Raises(self, "ValueError")
             ELSE Returns([self EXCEPT !.words = Append(@,
                     OcrWord(self.textLen,
                         (self.leftCoordOffset + int(parts[2])) * IMAGE_RESIZE_FACTOR,
                         (self.topCoordOffset + int(parts[3])) * IMAGE_RESIZE_FACTOR))])

\* The ocrx_word branch: the bounding box of the title attribute.
AppendWord(self, attrs) ==
    IF "title" \notin DOMAIN attrs
    THEN Raises(self, "AttributeError")          \* None.split
    ELSE LET titleBbox == split(attrs.title, ";")[1]
             parts == split(titleBbox, " ")
         IN  IF Len(parts) # 5 \/ ~IsNumeral(parts[2]) \/ ~IsNumeral(parts[3])
             THEN Raises(self, "ValueError")     \* unpacking, int()
             ELSE Returns([self EXCEPT !.words = Append(@,
                     OcrWord(self.textLen,
                         self.leftCoordOffset * IMAGE_RESIZE_FACTOR + int(parts[2]),
                         self.topCoordOffset * IMAGE_RESIZE_FACTOR + int(parts[3])))])

\* Faulty variant: ocr_word spans are taken for word spans too.
_startElementBothMarkers(self, tag, attrs) ==
    IF tag \in {"p", "div"}
    THEN Returns([self EXCEPT !._hasBlockHadContent = FALSE])
    ELSE IF tag = "span"
    THEN IF "class" \notin DOMAIN attrs
         THEN Raises(self, "KeyError")
         ELSE IF attrs.class = "ocr_line"
         THEN Returns([self EXCEPT !.lines = Append(@, self.textLen)])
         ELSE IF attrs.class \in {"ocrx_word", "ocr_word"}
         THEN AppendWord(self, attrs)
         ELSE Returns(self)
    ELSE Returns(self)

\* Faulty variant: a block start does not reset _hasBlockHadContent.
_startElementNoReset(self, tag, attrs) ==
    IF tag \in {"p", "div"}
    THEN Returns(self)
    ELSE IF tag = "span"
    THEN IF "class" \notin DOMAIN attrs
         THEN Raises(self, "KeyError")
         ELSE IF attrs.class = "ocr_line"
         THEN Returns([self EXCEPT !.lines = Append(@, self.textLen)])
         ELSE IF attrs.class = "ocrx_word"
         THEN AppendWord(self, attrs)
         ELSE Returns(self)
    ELSE Returns(self)

\* Faulty variant: a line that starts before any text records no boundary.
_startElementSkipsFirstLine(self, tag, attrs) ==
    IF tag \in {"p", "div"}
    THEN Returns([self EXCEPT !._hasBlockHadContent = FALSE])
    ELSE IF tag = "span"
    THEN IF "class" \notin DOMAIN attrs
         THEN Raises(self, "KeyError")
         ELSE IF attrs.class = "ocr_line"
         THEN IF self.textLen = 0
              THEN Returns(self)
              ELSE Returns([self EXCEPT !.lines = Append(@, self.textLen)])
         ELSE IF attrs.class = "ocrx_word"
         THEN AppendWord(self, attrs)
         ELSE Returns(self)
    ELSE Returns(self)

_startElement(self, tag, attrs) ==
    IF tag \in {"p", "div"}
    THEN Returns([self EXCEPT !._hasBlockHadContent = FALSE])
    ELSE IF tag = "span"
    THEN IF "class" \notin DOMAIN attrs
         THEN Raises(self, "KeyError")
         ELSE IF attrs.class = "ocr_line"
         THEN Returns([self EXCEPT !.lines = Append(@, self.textLen)])
         ELSE IF attrs.class = "ocrx_word"
         THEN AppendWord(self, attrs)
         ELSE Returns(self)
    ELSE Returns(self)

\* ocr/__init__.py, the ocr_word branch: the title is split at the spaces
\* only.
AppendWordPkg(self, attrs) ==
    IF "title" \notin DOMAIN attrs
    THEN Raises(self, "AttributeError")          \* None.split
    ELSE LET parts == split(attrs.title, " ")
         IN  IF Len(parts) # 5 \/ ~IsNumeral(parts[2]) \/ ~IsNumeral(parts[3])
             THEN Raises(self, "ValueError")     \* unpacking, int()
             ELSE Returns([self EXCEPT !.words = Append(@,
                     OcrWord(self.textLen,
                         self.leftCoordOffset * IMAGE_RESIZE_FACTOR + int(parts[2]),
                         self.topCoordOffset * IMAGE_RESIZE_FACTOR + int(parts[3])))])

\* ocr/__init__.py: HocrParser._startElement.
_startElementPkg(self, tag, attrs) ==
    IF tag \in {"p", "div"}
    THEN Returns([self EXCEPT !._hasBlockHadContent = FALSE])
    ELSE IF tag = "span"
    THEN IF "class" \notin DOMAIN attrs
         THEN Raises(self, "KeyError")
         ELSE IF attrs.class = "ocr_line"
         THEN Returns([self EXCEPT !.lines = Append(@, self.textLen)])
         ELSE IF attrs.class = "ocr_word"
         THEN AppendWordPkg(self, attrs)
         ELSE Returns(self)
    ELSE Returns(self)

_endElement(self, tag) == Returns(self)

\* Faulty variant: textLen = len(data) instead of textLen += len(data).
_charDataAssignsLen(self, data) ==
    LET emit(d) ==
            Returns([self EXCEPT !._hasBlockHadContent = TRUE,
                                 !._textList = Append(@, d),
                                 !.textLen = Len(d)])
    IN  IF isspace(data)
        THEN IF ~self._hasBlockHadContent
             THEN Returns(self)
             ELSE IF self._textList # <<>>
                        /\ self._textList[Len(self._textList)] = <<" ">>
             THEN Returns(self)
             ELSE emit(<<" ">>)
        ELSE emit(data)

\* Faulty variant: the length of the data as received is added, also when
\* the whitespace run was collapsed to one space.
_charDataCountsRaw(self, data) ==
    LET emit(d) ==
            Returns([self EXCEPT !._hasBlockHadContent = TRUE,
                                 !._textList = Append(@, d),
                                 !.textLen = @ + Len(data)])
    IN  IF isspace(data)
        THEN IF ~self._hasBlockHadContent
             THEN Returns(self)
             ELSE IF self._textList # <<>>
                        /\ self._textList[Len(self._textList)] = <<" ">>
             THEN Returns(self)
             ELSE emit(<<" ">>)
        ELSE emit(data)

_charData(self, data) ==
    LET emit(d) ==
            Returns([self EXCEPT !._hasBlockHadContent = TRUE,
                                 !._textList = Append(@, d),
                                 !.textLen = @ + Len(d)])
    IN  IF isspace(data)
        THEN IF ~self._hasBlockHadContent
             THEN Returns(self)
             ELSE IF self._textList # <<>>
                        /\ self._textList[Len(self._textList)] = <<" ">>
             THEN Returns(self)
             ELSE emit(<<" ">>)
        ELSE emit(data)

\* The statements of __init__ after parser.Parse(xml) has returned.
FinishInit(self) ==
    [self EXCEPT !.text = join(self._textList), !._textList = <<>>]

-----------------------------------------------------------------------------
(* OcrTextInfo: the methods read the parser object the instance refers to. *)

_getTextRange(parser, start, end) == Slice(parser.text, start, end)

_getStoryLength(parser) == parser.textLen

\* for end in lines: if end > offset: return (start, end); start = end
RECURSIVE LineScan(_, _, _, _)
LineScan(parser, offset, i, start) ==
    IF i > Len(parser.lines) THEN <<start, parser.textLen>>
    ELSE IF parser.lines[i] > offset THEN <<start, parser.lines[i]>>
    ELSE LineScan(parser, offset, i + 1, parser.lines[i])

\* Faulty variant: the comparison of the scan is reversed.
RECURSIVE LineScanReversed(_, _, _, _)
LineScanReversed(parser, offset, i, start) ==
    IF i > Len(parser.lines) THEN <<start, parser.textLen>>
    ELSE IF parser.lines[i] < offset THEN <<start, parser.lines[i]>>
    ELSE LineScanReversed(parser, offset, i + 1, parser.lines[i])

_getLineOffsetsReversed(parser, offset) == LineScanReversed(parser, offset, 1, 0)

\* Faulty variant: the scan stops at a boundary equal to the offset.
RECURSIVE LineScanInclusive(_, _, _, _)
LineScanInclusive(parser, offset, i, start) ==
    IF i > Len(parser.lines) THEN <<start, parser.textLen>>
    ELSE IF parser.lines[i] >= offset THEN <<start, parser.lines[i]>>
    ELSE LineScanInclusive(parser, offset, i + 1, parser.lines[i])

_getLineOffsetsInclusive(parser, offset) == LineScanInclusive(parser, offset, 1, 0)

_getLineOffsets(parser, offset) == LineScan(parser, offset, 1, 0)

RECURSIVE WordScan(_, _, _, _)
WordScan(parser, offset, i, start) ==
    IF i > Len(parser.words) THEN <<start, parser.textLen>>
    ELSE IF parser.words[i].offset > offset
    THEN <<start, parser.words[i].offset>>
    ELSE WordScan(parser, offset, i + 1, parser.words[i].offset)

_getWordOffsets(parser, offset) == WordScan(parser, offset, 1, 0)

Point(x, y) == <<x, y>>

\* The for ... else loop: `word` is the index of the word the local variable
\* is bound to, 0 while it is unbound.  The else branch runs when the loop
\* ends without break; after a break an unbound `word` raises.
RECURSIVE PointScan(_, _, _, _)
PointScan(parser, offset, i, word) ==
    IF i > Len(parser.words)
    THEN [exc |-> "none",
          val |-> Point(parser.leftCoordOffset, parser.topCoordOffset)]
    ELSE IF parser.words[i].offset > offset
    THEN IF word = 0
         THEN [exc |-> "UnboundLocalError", val |-> <<>>]
         ELSE [exc |-> "none",
               val |-> Point(Trunc(parser.words[word].left),
                             Trunc(parser.words[word].top))]
    ELSE PointScan(parser, offset, i + 1, i)

_getPointFromOffset(parser, offset) == PointScan(parser, offset, 1, 0)

-----------------------------------------------------------------------------
(* State *)

VARIABLES
    run,        \* HocrParser(xml, left, top): the object, and how far the call is
    nEvents,    \* callbacks delivered so far
    infos,      \* OcrTextInfo instances that refer to the parser object
    ret,        \* the pending OcrTextInfo call: method, arguments, outcome
    \* History of the parse, kept by the traced specification only:
    last,       \* the callback delivered last
    lead,       \* a block has started and no non-whitespace data has followed
    twin,       \* the same call on the document with the word markers exchanged
    nX, nO,     \* ocrx_word / ocr_word elements of the document so far
    legacy,     \* HocrParser of ocr/__init__.py on the document of twin
    nL          \* ocr_line elements of the document so far

vars == <<run, nEvents, infos, ret, last, lead, twin, nX, nO, legacy, nL>>

history == <<last, lead, twin, nX, nO, legacy, nL>>

NoEvent == [kind |-> "none", attrs |-> NoAttrs, data |-> <<>>]
NoCall == [op |-> "none", args |-> <<>>, exc |-> "none", val |-> <<>>]

Init ==
    /\ \E o \in Origins :
          /\ run = [self |-> NewParser(o[1], o[2]), pc |-> "parsing", exc |-> "none"]
          /\ twin = run
          /\ legacy = run
    /\ nEvents = 0
    /\ infos = 0
    /\ ret = NoCall
    /\ last = NoEvent
    /\ lead = FALSE
    /\ nX = 0
    /\ nO = 0
    /\ nL = 0

\* A handler's outcome inside parser.Parse: an exception leaves Parse and
\* __init__, so the constructor call yields no object.
Deliver(r, out) ==
    IF r.pc # "parsing" THEN r
    ELSE IF out.exc # "none" THEN [r EXCEPT !.pc = "failed", !.exc = out.exc]
    ELSE [r EXCEPT !.self = out.self]

Elements ==
    ({"p", "div", "body"} \X {NoAttrs}) \cup ({"span"} \X SpanAttrs)

\* expat calls StartElementHandler(tag, attrs).
StartElementOf(tag, attrs) ==
    /\ run.pc = "parsing"
    /\ nEvents < MaxEvents
    /\ run' = Deliver(run, _startElement(run.self, tag, attrs))
    /\ nEvents' = nEvents + 1
    /\ UNCHANGED <<infos, ret>>

\* expat calls EndElementHandler(tag).
EndElementOf(tag) ==
    /\ run.pc = "parsing"
    /\ nEvents < MaxEvents
    /\ run' = Deliver(run, _endElement(run.self, tag))
    /\ nEvents' = nEvents + 1
    /\ UNCHANGED <<infos, ret>>

\* expat calls CharacterDataHandler(data).
CharacterDataOf(data) ==
    /\ run.pc = "parsing"
    /\ nEvents < MaxEvents
    /\ run' = Deliver(run, _charData(run.self, data))
    /\ nEvents' = nEvents + 1
    /\ UNCHANGED <<infos, ret>>

\* parser.Parse(xml) returns and __init__ completes.
ParseReturnsNow ==
    /\ run.pc = "parsing"
    /\ run' = [run EXCEPT !.self = FinishInit(@), !.pc = "done"]
    /\ UNCHANGED <<nEvents, infos, ret>>

StartElement ==
    /\ \E el \in Elements : StartElementOf(el[1], el[2])
    /\ UNCHANGED history

EndElement ==
    /\ \E tag \in {"p", "span"} : EndElementOf(tag)
    /\ UNCHANGED history

CharacterData ==
    /\ \E data \in DataSet : CharacterDataOf(data)
    /\ UNCHANGED history

ParseReturns ==
    /\ ParseReturnsNow
    /\ UNCHANGED history

\* The script: nothing is reviewed when no text was found; otherwise
\* makeTextInfo(POSITION_FIRST) builds the first OcrTextInfo.
MakeTextInfo ==
    /\ run.pc = "done"
    /\ run.self.textLen # 0
    /\ infos = 0
    /\ infos' = 1
    /\ UNCHANGED <<run, nEvents, ret, history>>

copy ==
    /\ infos >= 1
    /\ infos < MaxInfos
    /\ ret = NoCall
    /\ infos' = infos + 1
    /\ UNCHANGED <<run, nEvents, ret, history>>

Offsets == 0 .. _getStoryLength(run.self)

GetStoryLength ==
    /\ infos >= 1
    /\ ret = NoCall
    /\ ret' = [op |-> "storyLength", args |-> <<>>, exc |-> "none",
               val |-> <<_getStoryLength(run.self)>>]
    /\ UNCHANGED <<run, nEvents, infos, history>>

GetTextRange ==
    /\ infos >= 1
    /\ ret = NoCall
    /\ \E start \in Offsets : \E end \in start .. _getStoryLength(run.self) :
          ret' = [op |-> "textRange", args |-> <<start, end>>, exc |-> "none",
                  val |-> _getTextRange(run.self, start, end)]
    /\ UNCHANGED <<run, nEvents, infos, history>>

\* Faulty variant: the scan consumes the boundaries it passes.
GetLineOffsetsConsuming ==
    /\ infos >= 1
    /\ ret = NoCall
    /\ \E offset \in Offsets :
          /\ ret' = [op |-> "lineOffsets", args |-> <<offset>>, exc |-> "none",
                     val |-> _getLineOffsets(run.self, offset)]
          /\ run' = [run EXCEPT !.self.lines =
                        SelectSeq(@, LAMBDA end : end > offset)]
    /\ UNCHANGED <<nEvents, infos, history>>

GetLineOffsets ==
    /\ infos >= 1
    /\ ret = NoCall
    /\ \E offset \in Offsets :
          ret' = [op |-> "lineOffsets", args |-> <<offset>>, exc |-> "none",
                  val |-> _getLineOffsets(run.self, offset)]
    /\ UNCHANGED <<run, nEvents, infos, history>>

GetWordOffsets ==
    /\ infos >= 1
    /\ ret = NoCall
    /\ \E offset \in Offsets :
          ret' = [op |-> "wordOffsets", args |-> <<offset>>, exc |-> "none",
                  val |-> _getWordOffsets(run.self, offset)]
    /\ UNCHANGED <<run, nEvents, infos, history>>

GetPointFromOffset ==
    /\ infos >= 1
    /\ ret = NoCall
    /\ \E offset \in Offsets :
          LET r == _getPointFromOffset(run.self, offset)
          IN  ret' = [op |-> "pointFromOffset", args |-> <<offset>>,
                      exc |-> r.exc, val |-> r.val]
    /\ UNCHANGED <<run, nEvents, infos, history>>

\* The caller takes the outcome of the call; the instance is idle again.
Resume ==
    /\ ret # NoCall
    /\ ret' = NoCall
    /\ UNCHANGED <<run, nEvents, infos, history>>

Next ==
    \/ StartElement
    \/ EndElement
    \/ CharacterData
    \/ ParseReturns
    \/ MakeTextInfo
    \/ copy
    \/ GetStoryLength
    \/ GetTextRange
    \/ GetLineOffsets
    \/ GetWordOffsets
    \/ GetPointFromOffset
    \/ Resume

Spec == Init /\ [][Next]_vars

-----------------------------------------------------------------------------
(* The parse with its history: the callback delivered last, the leading    *)
(* part of a block, and the run on the document whose word spans carry the *)
(* other class marker.                                                     *)

\* The same attributes with ocr_word and ocrx_word exchanged.
SwapMarker(attrs) ==
    IF "class" \notin DOMAIN attrs THEN attrs
    ELSE IF attrs.class = "ocrx_word" THEN [attrs EXCEPT !.class = "ocr_word"]
    ELSE IF attrs.class = "ocr_word" THEN [attrs EXCEPT !.class = "ocrx_word"]
    ELSE attrs

IsWord(attrs, cls) == "class" \in DOMAIN attrs /\ attrs.class = cls

TracedStartElement ==
    \E el \in Elements :
        LET tag == el[1]
            attrs == el[2]
        IN  /\ StartElementOf(tag, attrs)
            /\ twin' = Deliver(twin, _startElement(twin.self, tag, SwapMarker(attrs)))
            /\ last' = [kind |-> "start", attrs |-> attrs, data |-> <<>>]
            /\ lead' = IF tag \in {"p", "div"} THEN TRUE ELSE lead
            /\ nX' = IF tag = "span" /\ IsWord(attrs, "ocrx_word") THEN nX + 1 ELSE nX
            /\ nO' = IF tag = "span" /\ IsWord(attrs, "ocr_word") THEN nO + 1 ELSE nO
            /\ legacy' = Deliver(legacy,
                              _startElementPkg(legacy.self, tag, SwapMarker(attrs)))
            /\ nL' = IF tag = "span" /\ IsWord(attrs, "ocr_line") THEN nL + 1 ELSE nL

TracedEndElement ==
    \E tag \in {"p", "span"} :
        /\ EndElementOf(tag)
        /\ twin' = Deliver(twin, _endElement(twin.self, tag))
        /\ legacy' = Deliver(legacy, _endElement(legacy.self, tag))
        /\ last' = [kind |-> "end", attrs |-> NoAttrs, data |-> <<>>]
        /\ UNCHANGED <<lead, nX, nO, nL>>

TracedCharacterData ==
    \E data \in DataSet :
        /\ CharacterDataOf(data)
        /\ twin' = Deliver(twin, _charData(twin.self, data))
        /\ last' = [kind |-> "chars", attrs |-> NoAttrs, data |-> data]
        /\ legacy' = Deliver(legacy, _charData(legacy.self, data))
        /\ lead' = IF isspace(data) THEN lead ELSE FALSE
        /\ UNCHANGED <<nX, nO, nL>>

TracedParseReturns ==
    /\ ParseReturnsNow
    /\ twin' = IF twin.pc = "parsing"
               THEN [twin EXCEPT !.self = FinishInit(@), !.pc = "done"]
               ELSE twin
    /\ legacy' = IF legacy.pc = "parsing"
                 THEN [legacy EXCEPT !.self = FinishInit(@), !.pc = "done"]
                 ELSE legacy
    /\ last' = [kind |-> "eof", attrs |-> NoAttrs, data |-> <<>>]
    /\ UNCHANGED <<lead, nX, nO, nL>>

TracedNext ==
    \/ TracedStartElement
    \/ TracedEndElement
    \/ TracedCharacterData
    \/ TracedParseReturns

SpecTraced == Init /\ [][TracedNext]_vars

-----------------------------------------------------------------------------
(* Properties of the navigator, checked under Spec *)

Words == run.self.words
Lines == run.self.lines

\* The words, in document order, whose offset is at most o.
WordsNotAfter(o) == {i \in 1..Len(Words) : Words[i].offset <= o}

Max(S) == CHOOSE m \in S : \A n \in S : n <= m

\* C1: when some word starts at or before the offset, _getPointFromOffset
\* returns the (left, top) of the last such word in document order, as
\* integers; this includes the offsets at or after the start of the last word.
C1_PointOfLastWordNotAfter ==
    (ret.op = "pointFromOffset" /\ WordsNotAfter(ret.args[1]) # {}) =>
        LET k == Max(WordsNotAfter(ret.args[1]))
        IN  /\ ret.exc = "none"
            /\ ret.val = Point(Trunc(Words[k].left), Trunc(Words[k].top))

\* C2: when no word starts at or before the offset (the offset precedes the
\* first word, or there are no words), _getPointFromOffset returns the capture
\* origin and does not fail.
C2_OriginWhenNoWordNotAfter ==
    (ret.op = "pointFromOffset" /\ WordsNotAfter(ret.args[1]) = {}) =>
        /\ ret.exc = "none"
        /\ ret.val = Point(run.self.leftCoordOffset, run.self.topCoordOffset)

\* C3: for every offset o in [0, storyLength], _getLineOffsets(o) and
\* _getWordOffsets(o) return (s, e) with s <= o <= e and
\* 0 <= s <= e <= storyLength.
C3_RangeContainsOffset ==
    ret.op \in {"lineOffsets", "wordOffsets"} =>
        LET o == ret.args[1]
            s == ret.val[1]
            e == ret.val[2]
        IN  0 <= s /\ s <= o /\ o <= e /\ e <= _getStoryLength(run.self)

\* A line range that does not start at 0, in a result with several boundaries.
C3_Witness ==
    /\ ret.op = "lineOffsets"
    /\ Len(Lines) >= 2
    /\ ret.val[1] > 0
    /\ ret.val[1] < ret.val[2]

\* C4 as stated: the line boundaries are strictly increasing and every entry
\* lies in (0, textLen]; the list holds neither 0 nor an offset twice.
C4_StrictlyIncreasingPositive ==
    /\ \A i \in 1..Len(Lines) : 0 < Lines[i] /\ Lines[i] <= run.self.textLen
    /\ \A i \in 1..Len(Lines) : \A j \in 1..Len(Lines) :
          i < j => Lines[i] < Lines[j]

\* C4 as amended: the line boundaries are non-decreasing and every entry
\* lies in [0, textLen].
C4_NonDecreasingWithinText ==
    /\ \A i \in 1..Len(Lines) : 0 <= Lines[i] /\ Lines[i] <= run.self.textLen
    /\ \A i \in 1..Len(Lines) : \A j \in 1..Len(Lines) :
          i < j => Lines[i] <= Lines[j]

\* A first line that starts before any text, and an empty line later on.
C4_Witness ==
    /\ Len(Lines) >= 3
    /\ Lines[1] = 0
    /\ Lines[2] > 0
    /\ Lines[3] = Lines[2]

\* C5: the word records are ordered by non-decreasing offset and every word
\* offset lies in [0, textLen].
C5_WordOffsetsNonDecreasing ==
    /\ \A i \in 1..Len(Words) :
          0 <= Words[i].offset /\ Words[i].offset <= run.self.textLen
    /\ \A i \in 1..Len(Words) : \A j \in 1..Len(Words) :
          i < j => Words[i].offset <= Words[j].offset

\* Two words with text between them, and text after the second.
C5_Witness ==
    /\ Len(Words) >= 2
    /\ Words[1].offset < Words[2].offset
    /\ Words[2].offset < run.self.textLen

\* C6: textLen is the number of characters appended so far, during the parse
\* and after it, so _getStoryLength() = len(text) = len(_getTextRange(0,
\* _getStoryLength())).
C6_LengthIsTextLength ==
    /\ run.pc = "parsing" => run.self.textLen = Len(join(run.self._textList))
    /\ run.pc = "done" => run.self.textLen = Len(run.self.text)
    /\ ret.op = "storyLength" => ret.val[1] = Len(run.self.text)
    /\ (ret.op = "textRange" /\ ret.args = <<0, _getStoryLength(run.self)>>) =>
          Len(ret.val) = _getStoryLength(run.self)

\* The whole text was read back, after a whitespace run was collapsed.
C6_Witness ==
    /\ ret.op = "textRange"
    /\ ret.args = <<0, _getStoryLength(run.self)>>
    /\ Len(ret.val) >= 3
    /\ \E i \in 1..Len(ret.val) : ret.val[i] = " "

-----------------------------------------------------------------------------
(* Properties of the parse, checked under SpecTraced *)

BothDone == run.pc = "done" /\ twin.pc = "done"

\* C7 as stated: two documents that differ only in the class marker of their
\* word spans (ocr_word in one, ocrx_word in the other) give the same text,
\* the same line boundaries and the same word records.
C7_MarkersGiveSameResult ==
    BothDone =>
        /\ run.self.text = twin.self.text
        /\ run.self.textLen = twin.self.textLen
        /\ run.self.lines = twin.self.lines
        /\ run.self.words = twin.self.words

\* C7 as amended: the two documents give the same text and the same line
\* boundaries, and each result holds one word record for every ocrx_word
\* span of its own document and none for an ocr_word span.
C7_OnlyOcrxWordIsAWord ==
    BothDone =>
        /\ run.self.text = twin.self.text
        /\ run.self.textLen = twin.self.textLen
        /\ run.self.lines = twin.self.lines
        /\ Len(run.self.words) = nX
        /\ Len(twin.self.words) = nO

\* Both parses completed on a document with text and spans of both markers.
C7_Witness ==
    /\ BothDone
    /\ nX >= 1
    /\ nO >= 1
    /\ run.self.textLen > 0

\* The last step delivered whitespace-only character data.
WhitespaceDelivered ==
    /\ nEvents' = nEvents + 1
    /\ last'.kind = "chars"
    /\ isspace(last'.data)

TextSoFar(r) == join(r.self._textList)

\* C8: whitespace-only character data adds at most one space to the text,
\* and adds nothing when the last character emitted so far is a space.
C8_WhitespaceNeverDoublesSpace ==
    [][WhitespaceDelivered =>
          /\ TextSoFar(run') \in {TextSoFar(run), Append(TextSoFar(run), " ")}
          /\ (TextSoFar(run) # <<>> /\ TextSoFar(run)[Len(TextSoFar(run))] = " ")
                => TextSoFar(run') = TextSoFar(run)]_vars

\* C9: between the start of a p or div element and the first non-whitespace
\* character data after it, whitespace-only character data leaves the text
\* buffer and the running length unchanged.
C9_LeadingWhitespaceDropped ==
    [][(lead /\ WhitespaceDelivered) =>
          /\ run'.self._textList = run.self._textList
          /\ run'.self.textLen = run.self.textLen]_vars

\* Whitespace was delivered at the start of a block that follows earlier text.
C9_Witness ==
    /\ lead
    /\ last.kind = "chars"
    /\ isspace(last.data)
    /\ run.self.textLen > 0
    /\ run.self._hasBlockHadContent = FALSE

\* The callback delivered last was an ocrx_word span without a title.
UntitledWordDelivered ==
    /\ last.kind = "start"
    /\ IsWord(last.attrs, "ocrx_word")
    /\ "title" \notin DOMAIN last.attrs

\* C10: a word span without a title attribute ends the parse in an error:
\* the constructor raises, it yields no parser object, also not one built
\* from the callbacks before, and no OcrTextInfo is made.
C10_UntitledWordFailsParse ==
    UntitledWordDelivered =>
        /\ run.pc = "failed"
        /\ run.exc = "AttributeError"
        /\ infos = 0

\* The untitled word span came after a word and text had been recorded.
C10_Witness ==
    /\ UntitledWordDelivered
    /\ Len(run.self.words) >= 1
    /\ run.self.textLen > 0

\* The title has a ';' in it: metadata follows the bounding box.
HasSuffix(attrs) ==
    "title" \in DOMAIN attrs /\ Find(attrs.title, ";", 1) # 0

\* The same attributes with the title cut before its first ';'.
WithoutSuffix(attrs) ==
    [attrs EXCEPT !.title = SubSeq(@, 1, Find(@, ";", 1) - 1)]

\* The last step delivered a word span whose title carries metadata; run
\* sees it as an ocrx_word span and legacy as an ocr_word span.
SuffixedWordDelivered ==
    /\ nEvents' = nEvents + 1
    /\ last'.kind = "start"
    /\ IsWord(last'.attrs, "ocrx_word")
    /\ HasSuffix(last'.attrs)

\* C11: a word span whose title is the bounding box followed by ';' and
\* metadata leaves the parser as the same span without the metadata does:
\* the same word record, and no failure.  Stated of both versions of
\* _startElement.
C11_SuffixIsIgnored ==
    [][SuffixedWordDelivered =>
          /\ run' = Deliver(run,
                  _startElement(run.self, "span", WithoutSuffix(last'.attrs)))
          /\ run'.pc = "parsing"
          /\ legacy' = Deliver(legacy,
                  _startElementPkg(legacy.self, "span",
                                   WithoutSuffix(SwapMarker(last'.attrs))))
          /\ (legacy.pc = "parsing" => legacy'.pc = "parsing")]_vars

\* C11 of ocr.py alone, where it holds: the title is cut at its first ';'.
C11_SuffixIsIgnoredByOcrPy ==
    [][SuffixedWordDelivered =>
          /\ run' = Deliver(run,
                  _startElement(run.self, "span", WithoutSuffix(last'.attrs)))
          /\ run'.pc = "parsing"]_vars

\* The last step delivered an ocr_line span.
LineDelivered ==
    /\ nEvents' = nEvents + 1
    /\ last'.kind = "start"
    /\ IsWord(last'.attrs, "ocr_line")

\* C12 as stated: a document with n >= 1 line elements has n - 1 line
\* boundaries; the first line element records nothing.
C12_OneBoundaryLessThanLines ==
    (run.pc = "done" /\ nL >= 1) => Len(run.self.lines) = nL - 1

\* C12 as amended: every line element, the first included, appends the
\* running length at the moment it is delivered, nothing else changes the
\* list, also not the end of the document: n line elements leave n
\* boundaries.
C12_OneBoundaryPerLine ==
    [][ /\ LineDelivered =>
              run'.self.lines = Append(run.self.lines, run.self.textLen)
        /\ ~LineDelivered => run'.self.lines = run.self.lines
        /\ Len(run'.self.lines) = nL' ]_vars

\* A parsed document of two lines, the second starting after some text.
C12_Witness ==
    /\ run.pc = "done"
    /\ nL = 2
    /\ Len(run.self.lines) = 2
    /\ run.self.lines[2] > 0
    /\ run.self.lines[2] < run.self.textLen

\* The four numbers of the well-formed titles: left, top, right, bottom.
BboxOf(title) ==
    CASE title = TitleA -> <<10, 20, 30, 40>>
      [] title = TitleASuffix -> <<10, 20, 30, 40>>
      [] title = TitleAWide -> <<10, 20, 70, 95>>
      [] title = TitleB -> <<51, 21, 70, 40>>

WellFormedTitles == {TitleA, TitleASuffix, TitleAWide, TitleB}

\* The last step delivered an ocrx_word span with a well-formed title.
WordDelivered ==
    /\ nEvents' = nEvents + 1
    /\ last'.kind = "start"
    /\ IsWord(last'.attrs, "ocrx_word")
    /\ "title" \in DOMAIN last'.attrs
    /\ last'.attrs.title \in WellFormedTitles

\* C13: a word element appends exactly one word record; its offset is the
\* running length when the element starts, its left is
\* leftCoordOffset + bboxLeft / IMAGE_RESIZE_FACTOR and its top is
\* topCoordOffset + bboxTop / IMAGE_RESIZE_FACTOR (both kept in units of
\* 1 / IMAGE_RESIZE_FACTOR); right and bottom have no part in it, and
\* nothing else of the parser changes.
C13_WordRecordOfElement ==
    [][WordDelivered =>
          LET bbox == BboxOf(last'.attrs.title)
              record ==
                  [offset |-> run.self.textLen,
                   left |-> run.self.leftCoordOffset * IMAGE_RESIZE_FACTOR + bbox[1],
                   top |-> run.self.topCoordOffset * IMAGE_RESIZE_FACTOR + bbox[2]]
          IN  /\ run'.pc = "parsing"
              /\ run'.self = [run.self EXCEPT !.words = Append(@, record)]]_vars

\* Two word spans with the same left and top and other right and bottom,
\* after some text: their records are equal, at a non-zero offset, off a
\* non-zero origin.
C13_Witness ==
    /\ Len(run.self.words) = 2
    /\ last.kind = "start"
    /\ IsWord(last.attrs, "ocrx_word")
    /\ "title" \in DOMAIN last.attrs
    /\ last.attrs.title = TitleAWide
    /\ run.self.words[1] = run.self.words[2]
    /\ run.self.words[2].offset > 0
    /\ run.self.leftCoordOffset # 0
    /\ run.self.words[2].left = run.self.leftCoordOffset * IMAGE_RESIZE_FACTOR + 10

-----------------------------------------------------------------------------
(* Further properties of the navigator, checked under Spec *)

Boundaries(op) ==
    IF op = "lineOffsets" THEN {Lines[i] : i \in 1..Len(Lines)}
    ELSE {Words[i].offset : i \in 1..Len(Words)}

RangeAt(op, o) ==
    IF op = "lineOffsets" THEN _getLineOffsets(run.self, o)
    ELSE _getWordOffsets(run.self, o)

\* C14: the ranges of _getLineOffsets, and of _getWordOffsets, partition the
\* offsets: when the range of o is (s, e), every offset from s up to but not
\* including e has the range (s, e); and the range of an offset that is a
\* recorded boundary starts at that offset.
C14_RangesPartitionOffsets ==
    ret.op \in {"lineOffsets", "wordOffsets"} =>
        LET o == ret.args[1]
            s == ret.val[1]
            e == ret.val[2]
        IN  /\ \A p \in s .. (e - 1) : RangeAt(ret.op, p) = <<s, e>>
            /\ o \in Boundaries(ret.op) => s = o

\* The range of a line boundary after the start of the text, two or more
\* characters long.
C14_Witness ==
    /\ ret.op = "lineOffsets"
    /\ ret.args[1] \in Boundaries("lineOffsets")
    /\ ret.args[1] > 0
    /\ ret.val[2] >= ret.val[1] + 2

\* What the parser object holds for its readers.
Result(r) ==
    [text |-> r.self.text, textLen |-> r.self.textLen, lines |-> r.self.lines,
     words |-> r.self.words, leftCoordOffset |-> r.self.leftCoordOffset,
     topCoordOffset |-> r.self.topCoordOffset]

\* C15: once the parse has completed, no step (making an OcrTextInfo, copy,
\* any call of any instance, in any order) changes the text, textLen, lines,
\* words or capture origin of the parser object.
C15_ResultNeverChanges ==
    [][run.pc = "done" => (run'.pc = "done" /\ Result(run') = Result(run))]_vars

\* Two instances refer to the result and a point lookup has been made on a
\* result with lines and words.
C15_Witness ==
    /\ run.pc = "done"
    /\ infos >= 2
    /\ ret.op = "pointFromOffset"
    /\ Len(Lines) >= 1
    /\ Len(Words) >= 1

====
